---------------------------- MODULE Spec2Model ----------------------------
(***************************************************************************)
(* ResilienceDoctor: the circuit breaker, the retry executor, the timeout  *)
(* guard and the health monitor of resilience_doctor as state machines.    *)
(*                                                                         *)
(* Circuit breaker (patterns/circuit_breaker.py).  One CircuitBreaker      *)
(* object (self) is shared by a fixed set of threads.  Each thread         *)
(* repeatedly runs one of the public operations: call(func), a read of the *)
(* `state` property, reset() or get_stats().  Every `with self._lock:`     *)
(* block is an acquire step followed by a body step that also releases;    *)
(* everything that happens outside a lock (the `return self._state` of the *)
(* property, the invocation of func) is a step of its own, so that other   *)
(* threads interleave exactly where the code lets them.  time.time() is a  *)
(* bounded integer clock that an environment action advances.              *)
(*                                                                         *)
(* Retry (patterns/retry.py).  One policy, a Retry object or the closure   *)
(* of the @retry decorator, runs executions of func; each execution logs   *)
(* its invocations of func, observer calls and sleeps.                     *)
(*                                                                         *)
(* Timeout (patterns/timeout.py).  One Timeout.execute call at a time in   *)
(* the main thread, with the process's SIGALRM handler and real-time timer.*)
(*                                                                         *)
(* Health (monitoring/health.py).  One HealthMonitor whose checks are      *)
(* added, removed and run by check_all.                                    *)
(*                                                                         *)
(* Each component has its own specification; the variables of the others   *)
(* keep their initial values in it.                                        *)
(***************************************************************************)
EXTENDS Integers, FiniteSets, Sequences, TLC

(* ------------------------------ bounds -------------------------------- *)
NumThreads == 2          \* threads sharing the breaker
MaxThreshold == 2        \* failure_threshold, success_threshold in 1..MaxThreshold
MaxTimeout == 2          \* timeout in 1..MaxTimeout
MaxTime == 3             \* the clock runs 0..MaxTime
MaxFailures == 3         \* cap on _failure_count (it is unbounded in the code)
NumExecutions == 2       \* executions that share one retry policy
MaxAttempts == 3         \* max_attempts in 1..MaxAttempts
MaxDelay == 2            \* initial_delay in 0..MaxDelay
MaxBackoff == 2          \* backoff_factor in 1..MaxBackoff
MaxSeconds == 2          \* Timeout.seconds in 1..MaxSeconds
MaxWork == 3             \* the guarded func needs 0..MaxWork units of time
MaxInstants == 2         \* cap on the values the fields take during one observed get_stats()

(* ----------------------------- constants ------------------------------ *)
CLOSED == "closed"
OPEN == "open"
HALF_OPEN == "half_open"
CircuitState == {CLOSED, OPEN, HALF_OPEN}

None == -1               \* _last_failure_time before any failure
Unlocked == 0            \* value of _lock when no thread holds it

Threads == 1..NumThreads
CircuitBreakerError == "CircuitBreakerError"
OpErrors == {"ErrorA", "ErrorB"}     \* exceptions the protected func can raise
NoExc == "none"

VARIABLES
  self,                  \* the CircuitBreaker object: configuration and fields
  now,                   \* time.time()
  pc,                    \* pc[t]: where thread t is
  op,                    \* op[t]: the public operation thread t is running
  current_state,         \* call()'s local current_state
  exc,                   \* call()'s local e: the exception func raised
  outcome,               \* what the finished operation gave its caller
  cs_state,              \* history: _state as the state property left it inside its lock
  consecutive_failures,  \* history: failed calls recorded since the last success/reset
  trial_successes,       \* history: successes recorded in the current HALF_OPEN episode
  stats,                 \* get_stats()'s dict under construction, per thread
  instants,              \* history: the values the breaker's fields had during thread t's get_stats()
  policy,                \* the Retry object, or the closure of the retry decorator
  rpc,                   \* rpc[x]: where retry execution x is
  attempt,               \* the loop variable of execution x
  delay,                 \* the local delay of execution x
  last_exception,        \* the local last_exception of execution x
  events,                \* history: calls of func, observer calls and sleeps of x, in order
  result,                \* what the finished execution gave its caller
  timeout_self,          \* the Timeout object
  sigalrm,               \* the process's SIGALRM handler, its real-time timer, the pending signal
  guarded,               \* one Timeout.execute call: position, func, locals, history
  checks,                \* HealthMonitor.checks: the dict's values in insertion order
  hpc,                   \* where check_all is
  results,               \* check_all's local results
  overall_status,        \* check_all's local overall_status
  report,                \* what check_all or check_one returned
  probed                 \* history: the checks whose probe the running operation called, in order

\* The variables of the circuit breaker and of the threads that use it.
breaker_vars == <<self, now, pc, op, current_state, exc, outcome, cs_state,
                  consecutive_failures, trial_successes, stats, instants>>

\* The variables of the retry executor.
retry_vars == <<policy, rpc, attempt, delay, last_exception, events, result>>

\* The variables of the timeout guard.
timeout_vars == <<timeout_self, sigalrm, guarded>>

\* The variables of the health monitor.
health_vars == <<checks, hpc, results, overall_status, report, probed>>

\* The variables of the components that never touch the breaker.
others == <<retry_vars, timeout_vars, health_vars>>

\* What the retry executor, the timeout guard (which lets time pass) and the
\* health monitor leave alone.
not_retry == <<breaker_vars, timeout_vars, health_vars>>
not_timeout == <<self, pc, op, current_state, exc, outcome, cs_state,
                 consecutive_failures, trial_successes, stats, instants,
                 retry_vars, health_vars>>
not_health == <<breaker_vars, retry_vars, timeout_vars>>

\* Everything the operations call(), state and reset() never touch.
rest == <<stats, others>>

vars == <<self, now, pc, op, current_state, exc, outcome, cs_state,
          consecutive_failures, trial_successes, stats, instants,
          policy, rpc, attempt, delay, last_exception, events, result,
          timeout_self, sigalrm, guarded,
          checks, hpc, results, overall_status, report, probed>>

(* ------------------------- CircuitBreaker methods --------------------- *)

\* __init__: a fresh breaker with the given configuration.
__init__(failure_threshold, timeout, success_threshold) ==
  [ failure_threshold |-> failure_threshold,
    timeout |-> timeout,
    success_threshold |-> success_threshold,
    _state |-> CLOSED,
    _failure_count |-> 0,
    _success_count |-> 0,
    _last_failure_time |-> None,
    _lock |-> Unlocked ]

\* Faulty variant: the elapsed time is compared with > instead of >=.
_should_attempt_reset_strict(b, t) ==
  IF b._last_failure_time = None THEN FALSE
  ELSE (t - b._last_failure_time) > b.timeout

\* Faulty variant: the subtraction has its operands the wrong way round.
_should_attempt_reset_swapped(b, t) ==
  IF b._last_failure_time = None THEN FALSE
  ELSE (b._last_failure_time - t) >= b.timeout

\* _should_attempt_reset at clock value t.
_should_attempt_reset(b, t) ==
  IF b._last_failure_time = None THEN FALSE
  ELSE (t - b._last_failure_time) >= b.timeout

\* Faulty variant: a check that leaves the circuit as it is clears _failure_count.
state_locked_clears_count(b, t) ==
  IF b._state = OPEN /\ _should_attempt_reset(b, t)
  THEN [b EXCEPT !._state = HALF_OPEN, !._success_count = 0]
  ELSE [b EXCEPT !._failure_count = 0]

\* Faulty variant: the lazy transition does not test that the circuit is OPEN.
state_locked_any_state(b, t) ==
  IF _should_attempt_reset(b, t)
  THEN [b EXCEPT !._state = HALF_OPEN, !._success_count = 0]
  ELSE b

\* The body of the state property's `with self._lock:` block.
state_locked(b, t) ==
  IF b._state = OPEN /\ _should_attempt_reset(b, t)
  THEN [b EXCEPT !._state = HALF_OPEN, !._success_count = 0]
  ELSE b

\* Faulty variant: tripping leaves _success_count as it is.
_trip_keeps_success_count(b) == [b EXCEPT !._state = OPEN]

\* Faulty variant: get_stats reads the state property, which makes the lazy transition.
get_stats_object_lazy(b, t) ==
  IF b._state = OPEN /\ _should_attempt_reset(b, t)
  THEN [b EXCEPT !._state = HALF_OPEN, !._success_count = 0]
  ELSE b

\* get_stats: the breaker after its attributes were read (no method is called,
\* no lock is taken, nothing is assigned).
get_stats_object(b, t) == b

\* _trip
_trip(b) == [b EXCEPT !._state = OPEN, !._success_count = 0]

\* Faulty variant: closing leaves _success_count as it is.
_reset_keeps_success_count(b) == [b EXCEPT !._state = CLOSED, !._failure_count = 0]

\* Faulty variant: closing leaves _failure_count as it is.
_reset_keeps_failure_count(b) == [b EXCEPT !._state = CLOSED, !._success_count = 0]

\* _reset
_reset(b) == [b EXCEPT !._state = CLOSED, !._failure_count = 0, !._success_count = 0]

\* Faulty variant: one success too many is needed to close.
success_reached_strict(count, threshold) == count > threshold

\* The comparison that closes the circuit in _on_success.
success_reached(count, threshold) == count >= threshold

\* The body of _on_success's `with self._lock:` block.
_on_success(b) ==
  IF b._state = HALF_OPEN
  THEN LET b1 == [b EXCEPT !._success_count = @ + 1]
       IN  IF success_reached(b1._success_count, b1.success_threshold)
           THEN _reset(b1) ELSE b1
  ELSE IF b._state = CLOSED
  THEN [b EXCEPT !._failure_count = 0]
  ELSE b

\* Faulty variant: one failure too many is needed to trip.
failure_reached_strict(count, threshold) == count > threshold

\* The comparison that trips the circuit in _on_failure.
failure_reached(count, threshold) == count >= threshold

\* The body of _on_failure's `with self._lock:` block, at clock value t.
_on_failure(b, t) ==
  LET b1 == [b EXCEPT !._failure_count = @ + 1, !._last_failure_time = t]
  IN  IF b1._state = HALF_OPEN THEN _trip(b1)
      ELSE IF failure_reached(b1._failure_count, b1.failure_threshold) THEN _trip(b1)
      ELSE b1

\* Entering `with self._lock:` (possible only when the lock is free).
acquire(b, t) == [b EXCEPT !._lock = t]

\* Faulty variant: the lock is still held after the block.
release_keeps_lock(b, t) == [b EXCEPT !._lock = t]

\* Leaving `with self._lock:`.
release(b, t) == [b EXCEPT !._lock = Unlocked]

\* Faulty variant: the call is rejected in the wrong state.
rejects_half_open(s) == s = HALF_OPEN

\* call(): the test `current_state == CircuitState.OPEN` that rejects the call.
rejects(s) == s = OPEN

\* Faulty variant: the failure of func is replaced by the breaker's own error.
call_raise_breaker_error(e) == [kind |-> "raise", value |-> "CircuitBreakerError"]

\* call(): what the caller gets after func raised e and _on_failure ran (`raise e`).
call_raise(e) == [kind |-> "raise", value |-> e]

\* call(): what the caller gets after func returned and _on_success ran.
call_return == [kind |-> "return", value |-> "result"]

\* call(): the rejection raised while the circuit is open.
call_reject == [kind |-> "raise", value |-> CircuitBreakerError]

NoOutcome == [kind |-> "none", value |-> "none"]

\* get_stats(): the dict before any field was read.
NoStats == [state |-> "none", failure_count |-> None, success_count |-> None,
            last_failure_time |-> None]

(* ------------------------------- retry -------------------------------- *)
Executions == 1..NumExecutions
RetryExhaustedError == "RetryExhaustedError"

\* The exceptions a func of its own can raise.
RetryErrors == {"ConnectionError", "ValueError"}

\* What `except Exception` catches: every exception of the model.
Exception == RetryErrors \cup OpErrors \cup {CircuitBreakerError, RetryExhaustedError}

\* The tuples `exceptions` is drawn from: (ConnectionError,) and the
\* default (Exception,).
ExceptionTuples == {{"ConnectionError"}, Exception}

\* Retry.__init__: the object's attributes; attempts is one of them.
Retry__init__(max_attempts, initial_delay, backoff_factor, exceptions) ==
  [kind |-> "Retry", max_attempts |-> max_attempts, initial_delay |-> initial_delay,
   backoff_factor |-> backoff_factor, exceptions |-> exceptions,
   on_retry |-> FALSE, attempts |-> 0]

\* retry(...): what the decorator's closure holds; there is no attempts
\* attribute, and on_retry says whether an observer was given.
retry(max_attempts, initial_delay, backoff_factor, exceptions, on_retry) ==
  [kind |-> "retry", max_attempts |-> max_attempts, initial_delay |-> initial_delay,
   backoff_factor |-> backoff_factor, exceptions |-> exceptions,
   on_retry |-> on_retry, attempts |-> None]

\* for attempt in range(max_attempts)
more_attempts(p, a) == a < p.max_attempts

\* Faulty variant: every exception is caught and retried.
is_retryable_any(p, e) == TRUE

\* except exceptions as e
is_retryable(p, e) == e \in p.exceptions

\* Faulty variant: gives up one attempt early.
will_retry_early(p, a) == a < p.max_attempts - 2

\* if attempt < max_attempts - 1
will_retry(p, a) == a < p.max_attempts - 1

\* Faulty variant: the delay grows by addition.
next_delay_additive(p, d) == d + p.backoff_factor

\* delay *= backoff_factor
next_delay(p, d) == d * p.backoff_factor

\* Faulty variant: the observer gets the 0-based loop variable.
observer_number_zero_based(a) == a

\* on_retry(attempt + 1, e): the first argument
observer_number(a) == a + 1

\* Retry.execute: self.attempts = attempt + 1; the decorator has no such line.
count_attempt(p, a) == IF p.kind = "Retry" THEN [p EXCEPT !.attempts = a + 1] ELSE p

\* raise RetryExhaustedError(...) from e
exhausted(e) == [kind |-> "raise", value |-> RetryExhaustedError, cause |-> e]

\* An exception that `except exceptions` does not catch leaves the executor as it is.
propagated(e) == [kind |-> "raise", value |-> e, cause |-> NoExc]

\* return func(*args, **kwargs)
returned == [kind |-> "return", value |-> "result", cause |-> NoExc]

NoResult == [kind |-> "none", value |-> "none", cause |-> NoExc]

\* What an execution does that its caller and func can observe.
CallEvent(n, what) == [ev |-> "call", n |-> n, what |-> what]
ObserverEvent(n, e) == [ev |-> "on_retry", n |-> n, what |-> e]
SleepEvent(d) == [ev |-> "sleep", n |-> d, what |-> "none"]

Calls(s) == SelectSeq(s, LAMBDA v : v.ev = "call")
Sleeps(s) == SelectSeq(s, LAMBDA v : v.ev = "sleep")
Observed(s) == SelectSeq(s, LAMBDA v : v.ev = "on_retry")

(* ------------------------------ timeout ------------------------------- *)
TimeoutError == "TimeoutError"
SIG_DFL == "SIG_DFL"                  \* the handler the process had before
timeout_handler == "timeout_handler"  \* the closure execute installs

\* Timeout.__init__
Timeout__init__(seconds) == [seconds |-> seconds]

\* The guarded func: it returns after `work` units of time.  A cooperative
\* func runs Python bytecode (or sleeps interruptibly), so a Python-level
\* signal handler can run inside it at any moment; a blocking func sits in
\* one long call outside the interpreter, and the handler can only run when
\* that call has returned.
FuncKinds == {"cooperative", "blocking"}

\* raise TimeoutError(...) in timeout_handler, as execute's caller sees it
timed_out == [kind |-> "raise", value |-> TimeoutError]

\* return result: func's own result
func_result == [kind |-> "return", value |-> "result"]

NotGuarded ==
  [pc |-> "idle", kind |-> "none", remaining |-> 0, old_handler |-> "none",
   exception |-> NoExc, result |-> NoOutcome,
   started |-> None, completed_at |-> None, raised_at |-> None]

(* ------------------------------- health -------------------------------- *)
HEALTHY == "healthy"
DEGRADED == "degraded"
UNHEALTHY == "unhealthy"
HealthStatus == {HEALTHY, DEGRADED, UNHEALTHY}

CheckNames == {"database", "cache", "api"}

\* What a probe (check_fn) does when it is called.
ProbeOutcomes == {"truthy", "falsy", "raises"}

\* HealthCheck.__init__: timeout: float = 5.0
DefaultTimeout == 5

\* How long a probe takes: no time, exactly the budget, longer than the budget.
ProbeDurations == {0, DefaultTimeout, DefaultTimeout + 1}

\* HealthCheck.__init__ (timeout keeps its default)
HealthCheck__init__(name, critical) ==
  [name |-> name, critical |-> critical, timeout |-> DefaultTimeout,
   last_check_time |-> None, last_status |-> "none", last_error |-> "none"]

NoReport == [status |-> "none", checks |-> << >>]

\* check_one: return None
NotFound == [status |-> "not_found", checks |-> << >>]

(* ------------------------------- Init --------------------------------- *)
\* No retry execution has started.
RetryIdle ==
  /\ rpc = [x \in Executions |-> "idle"]
  /\ attempt = [x \in Executions |-> 0]
  /\ delay = [x \in Executions |-> 0]
  /\ last_exception = [x \in Executions |-> NoExc]
  /\ events = [x \in Executions |-> << >>]
  /\ result = [x \in Executions |-> NoResult]

\* A Retry object with the default configuration, not in use.
RetryUnused ==
  /\ policy = Retry__init__(3, 1, 2, Exception)
  /\ RetryIdle

\* No Timeout.execute call has started; SIGALRM is as the process found it.
TimeoutIdle ==
  /\ sigalrm = [handler |-> SIG_DFL, itimer |-> None, pending |-> FALSE]
  /\ guarded = NotGuarded

\* A Timeout object, not in use.
TimeoutUnused ==
  /\ timeout_self = Timeout__init__(1)
  /\ TimeoutIdle

\* HealthMonitor.__init__: no checks; check_all is not running.
HealthInit ==
  /\ checks = << >>
  /\ hpc = "idle"
  /\ results = << >>
  /\ overall_status = "none"
  /\ report = NoReport
  /\ probed = << >>

\* The components other than the breaker, not in use.
OthersUnused == RetryUnused /\ TimeoutUnused /\ HealthInit

Init ==
  /\ \E ft \in 1..MaxThreshold, to \in 1..MaxTimeout, st \in 1..MaxThreshold :
        self = __init__(ft, to, st)
  /\ OthersUnused
  /\ now = 0
  /\ pc = [t \in Threads |-> "idle"]
  /\ op = [t \in Threads |-> "none"]
  /\ current_state = [t \in Threads |-> "none"]
  /\ exc = [t \in Threads |-> NoExc]
  /\ outcome = [t \in Threads |-> NoOutcome]
  /\ cs_state = [t \in Threads |-> "none"]
  /\ consecutive_failures = 0
  /\ trial_successes = 0
  /\ stats = [t \in Threads |-> NoStats]
  /\ instants = [t \in Threads |-> {}]

(* ------------------------------ actions ------------------------------- *)
\* The fields of a breaker that its operations assign (the lock left out).
fields(b) == <<b._state, b._failure_count, b._success_count, b._last_failure_time>>

\* Whatever a step does to the breaker, the new values of its fields are
\* values the fields had during every observed get_stats() that is still
\* reading (instants[t] is empty when t's get_stats() is not observed).
Instants ==
  /\ instants' = [t \in Threads |->
                    IF op[t] = "get_stats" /\ pc[t] # "done" /\ instants[t] # {}
                      THEN instants[t] \cup {fields(self')}
                      ELSE instants[t]]
  /\ \A t \in Threads : Cardinality(instants'[t]) <= MaxInstants

locals == <<current_state, exc, outcome, cs_state>>
history == <<consecutive_failures, trial_successes>>

\* A thread starts call(func): the first thing it does is read self.state.
BeginCall(t) ==
  /\ pc[t] = "idle"
  /\ pc' = [pc EXCEPT ![t] = "state_enter"]
  /\ op' = [op EXCEPT ![t] = "call"]
  /\ UNCHANGED <<self, now, locals, history>>
  /\ UNCHANGED rest
  /\ Instants

\* A thread reads the state property directly.
BeginState(t) ==
  /\ pc[t] = "idle"
  /\ pc' = [pc EXCEPT ![t] = "state_enter"]
  /\ op' = [op EXCEPT ![t] = "state"]
  /\ UNCHANGED <<self, now, locals, history>>
  /\ UNCHANGED rest
  /\ Instants

\* A thread starts reset().
BeginReset(t) ==
  /\ pc[t] = "idle"
  /\ pc' = [pc EXCEPT ![t] = "reset_enter"]
  /\ op' = [op EXCEPT ![t] = "reset"]
  /\ UNCHANGED <<self, now, locals, history>>
  /\ UNCHANGED rest
  /\ Instants

\* Where a thread is once it holds the lock it was waiting for.
locked_pc(p) ==
  CASE p = "state_enter" -> "state_locked"
    [] p = "on_success_enter" -> "on_success_locked"
    [] p = "on_failure_enter" -> "on_failure_locked"
    [] p = "reset_enter" -> "reset_locked"

\* `with self._lock:` is entered: the thread blocks until the lock is free.
Acquire(t) ==
  /\ pc[t] \in {"state_enter", "on_success_enter", "on_failure_enter", "reset_enter"}
  /\ self._lock = Unlocked
  /\ self' = acquire(self, t)
  /\ pc' = [pc EXCEPT ![t] = locked_pc(pc[t])]
  /\ UNCHANGED <<now, op, locals, history>>
  /\ UNCHANGED rest
  /\ Instants

\* state property, inside the lock: the lazy OPEN -> HALF_OPEN transition.
StateLocked(t) ==
  /\ pc[t] = "state_locked"
  /\ LET b == state_locked(self, now)
     IN  /\ self' = release(b, t)
         /\ cs_state' = [cs_state EXCEPT ![t] = b._state]
         /\ trial_successes' = IF b._state # self._state THEN 0 ELSE trial_successes
  /\ pc' = [pc EXCEPT ![t] = "state_return"]
  /\ UNCHANGED <<now, op, current_state, exc, outcome, consecutive_failures>>
  /\ UNCHANGED rest
  /\ Instants

\* state property, `return self._state`: read after the lock was released.
StateReturn(t) ==
  /\ pc[t] = "state_return"
  /\ op[t] = "state"
  /\ outcome' = [outcome EXCEPT ![t] = [kind |-> "return", value |-> self._state]]
  /\ cs_state' = [cs_state EXCEPT ![t] = "none"]
  /\ pc' = [pc EXCEPT ![t] = "done"]
  /\ UNCHANGED <<self, now, op, current_state, exc, history>>
  /\ UNCHANGED rest
  /\ Instants

\* call(): current_state = self.state (its `return self._state`), then the
\* OPEN test: reject, or go on to invoke func.
CallCheck(t) ==
  /\ pc[t] = "state_return"
  /\ op[t] = "call"
  /\ current_state' = [current_state EXCEPT ![t] = self._state]
  /\ cs_state' = [cs_state EXCEPT ![t] = "none"]
  /\ IF rejects(self._state)
     THEN /\ pc' = [pc EXCEPT ![t] = "done"]
          /\ outcome' = [outcome EXCEPT ![t] = call_reject]
     ELSE /\ pc' = [pc EXCEPT ![t] = "invoke"]
          /\ UNCHANGED outcome
  /\ UNCHANGED <<self, now, op, exc, history>>
  /\ UNCHANGED rest
  /\ Instants

\* call(): func(*args, **kwargs) begins to execute.
Invoke(t) ==
  /\ pc[t] = "invoke"
  /\ pc' = [pc EXCEPT ![t] = "in_func"]
  /\ UNCHANGED <<self, now, op, locals, history>>
  /\ UNCHANGED rest
  /\ Instants

\* func returns a result.
FuncReturns(t) ==
  /\ pc[t] = "in_func"
  /\ pc' = [pc EXCEPT ![t] = "on_success_enter"]
  /\ UNCHANGED <<self, now, op, locals, history>>
  /\ UNCHANGED rest
  /\ Instants

\* Failures that are raised or about to be recorded (bounds _failure_count).
PendingFailures == Cardinality({u \in Threads : pc[u] \in {"on_failure_enter", "on_failure_locked"}})

\* func raises an exception e.
FuncRaises(t) ==
  /\ pc[t] = "in_func"
  /\ self._failure_count + PendingFailures < MaxFailures
  /\ \E e \in OpErrors : exc' = [exc EXCEPT ![t] = e]
  /\ pc' = [pc EXCEPT ![t] = "on_failure_enter"]
  /\ UNCHANGED <<self, now, op, current_state, outcome, cs_state, history>>
  /\ UNCHANGED rest
  /\ Instants

\* _on_success inside the lock, then `return result`.
OnSuccess(t) ==
  /\ pc[t] = "on_success_locked"
  /\ LET b == _on_success(self)
     IN  /\ self' = release(b, t)
         /\ trial_successes' = IF self._state = HALF_OPEN /\ b._state = HALF_OPEN
                               THEN trial_successes + 1 ELSE 0
  /\ consecutive_failures' = 0
  /\ outcome' = [outcome EXCEPT ![t] = call_return]
  /\ pc' = [pc EXCEPT ![t] = "done"]
  /\ UNCHANGED <<now, op, current_state, exc, cs_state>>
  /\ UNCHANGED rest
  /\ Instants

\* _on_failure inside the lock, then `raise e`.
OnFailure(t) ==
  /\ pc[t] = "on_failure_locked"
  /\ self' = release(_on_failure(self, now), t)
  /\ consecutive_failures' = consecutive_failures + 1
  /\ trial_successes' = 0
  /\ outcome' = [outcome EXCEPT ![t] = call_raise(exc[t])]
  /\ pc' = [pc EXCEPT ![t] = "done"]
  /\ UNCHANGED <<now, op, current_state, exc, cs_state>>
  /\ UNCHANGED rest
  /\ Instants

\* reset() inside the lock.
Reset(t) ==
  /\ pc[t] = "reset_locked"
  /\ self' = release(_reset(self), t)
  /\ consecutive_failures' = 0
  /\ trial_successes' = 0
  /\ pc' = [pc EXCEPT ![t] = "done"]
  /\ UNCHANGED <<now, op, locals>>
  /\ UNCHANGED rest
  /\ Instants

\* The operation is over; the thread's locals are gone.
Finish(t) ==
  /\ pc[t] = "done"
  /\ pc' = [pc EXCEPT ![t] = "idle"]
  /\ op' = [op EXCEPT ![t] = "none"]
  /\ current_state' = [current_state EXCEPT ![t] = "none"]
  /\ exc' = [exc EXCEPT ![t] = NoExc]
  /\ outcome' = [outcome EXCEPT ![t] = NoOutcome]
  /\ UNCHANGED <<self, now, cs_state, history>>
  /\ stats' = [stats EXCEPT ![t] = NoStats]
  /\ instants' = [instants EXCEPT ![t] = {}]
  /\ UNCHANGED others

\* A thread starts get_stats().
BeginGetStats(t) ==
  /\ pc[t] = "idle"
  /\ pc' = [pc EXCEPT ![t] = "stats_state"]
  /\ op' = [op EXCEPT ![t] = "get_stats"]
  /\ UNCHANGED <<self, now, locals, history, stats, instants>>
  /\ UNCHANGED others

\* A thread starts a get_stats() whose instants are recorded.
BeginGetStatsObserved(t) ==
  /\ pc[t] = "idle"
  /\ pc' = [pc EXCEPT ![t] = "stats_state"]
  /\ op' = [op EXCEPT ![t] = "get_stats"]
  /\ instants' = [instants EXCEPT ![t] = {fields(self)}]
  /\ UNCHANGED <<self, now, locals, history, stats>>
  /\ UNCHANGED others

\* get_stats: "state": self._state.value, read with no lock held.
GetStatsState(t) ==
  /\ pc[t] = "stats_state"
  /\ stats' = [stats EXCEPT ![t].state = self._state]
  /\ self' = get_stats_object(self, now)
  /\ pc' = [pc EXCEPT ![t] = "stats_failure_count"]
  /\ UNCHANGED <<now, op, locals, history>>
  /\ Instants
  /\ UNCHANGED others

\* get_stats: "failure_count": self._failure_count.
GetStatsFailureCount(t) ==
  /\ pc[t] = "stats_failure_count"
  /\ stats' = [stats EXCEPT ![t].failure_count = self._failure_count]
  /\ pc' = [pc EXCEPT ![t] = "stats_success_count"]
  /\ UNCHANGED <<self, now, op, locals, history, instants>>
  /\ UNCHANGED others

\* get_stats: "success_count": self._success_count.
GetStatsSuccessCount(t) ==
  /\ pc[t] = "stats_success_count"
  /\ stats' = [stats EXCEPT ![t].success_count = self._success_count]
  /\ pc' = [pc EXCEPT ![t] = "stats_last_failure_time"]
  /\ UNCHANGED <<self, now, op, locals, history, instants>>
  /\ UNCHANGED others

\* get_stats: "last_failure_time": self._last_failure_time; the dict is returned.
GetStatsLastFailureTime(t) ==
  /\ pc[t] = "stats_last_failure_time"
  /\ stats' = [stats EXCEPT ![t].last_failure_time = self._last_failure_time]
  /\ outcome' = [outcome EXCEPT ![t] = [kind |-> "return", value |-> "stats"]]
  /\ pc' = [pc EXCEPT ![t] = "done"]
  /\ UNCHANGED <<self, now, op, current_state, exc, cs_state, history, instants>>
  /\ UNCHANGED others

\* Time passes.
Tick ==
  /\ now < MaxTime
  /\ now' = now + 1
  /\ UNCHANGED <<self, pc, op, locals, history>>
  /\ UNCHANGED rest
  /\ Instants

ThreadStep(t) ==
  \/ BeginCall(t)
  \/ BeginState(t)
  \/ BeginReset(t)
  \/ Acquire(t)
  \/ StateLocked(t)
  \/ StateReturn(t)
  \/ CallCheck(t)
  \/ Invoke(t)
  \/ FuncReturns(t)
  \/ FuncRaises(t)
  \/ OnSuccess(t)
  \/ OnFailure(t)
  \/ Reset(t)
  \/ Finish(t)

Next == Tick \/ \E t \in Threads : ThreadStep(t)

\* Any number of threads share the breaker.
Spec == Init /\ [][Next]_vars

\* A single thread uses the breaker: no two operations overlap.
NextSeq == Tick \/ ThreadStep(1)

SpecSeq == Init /\ [][NextSeq]_vars

GetStatsStep(t) ==
  \/ BeginGetStats(t)
  \/ GetStatsState(t)
  \/ GetStatsFailureCount(t)
  \/ GetStatsSuccessCount(t)
  \/ GetStatsLastFailureTime(t)

\* The threads also read the statistics while the breaker is in use.
NextStats == Next \/ \E t \in Threads : GetStatsStep(t)

SpecStats == Init /\ [][NextStats]_vars

\* Thread 1 calls get_stats() again and again, observed; the other threads
\* use the breaker.
NextSnapshot ==
  \/ Tick
  \/ BeginGetStatsObserved(1)
  \/ GetStatsState(1)
  \/ GetStatsFailureCount(1)
  \/ GetStatsSuccessCount(1)
  \/ GetStatsLastFailureTime(1)
  \/ Finish(1)
  \/ \E t \in Threads \ {1} : ThreadStep(t)

SpecSnapshot == Init /\ [][NextSnapshot]_vars


(* --------------------------- step predicates -------------------------- *)
\* Thread t takes the step that records a failure (_on_failure's body).
RecordsFailure(t) == pc[t] = "on_failure_locked" /\ pc'[t] = "done"

\* Thread t takes the step that records a success (_on_success's body).
RecordsSuccess(t) == pc[t] = "on_success_locked" /\ pc'[t] = "done"

\* Thread t takes the body of the state property's critical section.
ChecksLazily(t) == pc[t] = "state_locked" /\ pc'[t] = "state_return"

\* Thread t, inside call(), reads the state the property returns and tests it.
ReadsState(t) == op[t] = "call" /\ pc[t] = "state_return" /\ pc'[t] # pc[t]

\* Thread t begins to execute func.
BeginsFunc(t) == pc[t] = "invoke" /\ pc'[t] = "in_func"

\* Less than timeout has elapsed since the last failure.
WithinTimeout == now - self._last_failure_time < self.timeout

(* ------------------------------- claims ------------------------------- *)

\* C1: with a single caller, starting from CLOSED with no failure counted, the
\* failure that makes failure_threshold consecutive failed calls opens the
\* circuit and no earlier one does; a call made while the circuit is OPEN and
\* less than timeout has elapsed is rejected with CircuitBreakerError and never
\* reaches func.
C1_TripsAtThreshold ==
  /\ [][\A t \in Threads : (RecordsFailure(t) /\ self._state = CLOSED) =>
          /\ (consecutive_failures' = self.failure_threshold => self'._state = OPEN)
          /\ (consecutive_failures' < self.failure_threshold => self'._state = CLOSED)
          /\ consecutive_failures' <= self.failure_threshold]_vars
  /\ [][\A t \in Threads : (op[t] = "call" /\ ChecksLazily(t) /\ self._state = OPEN /\ WithinTimeout) =>
          (self'._state = OPEN /\ cs_state'[t] = OPEN)]_vars
  /\ [][\A t \in Threads : (ReadsState(t) /\ cs_state[t] = OPEN) =>
          (pc'[t] = "done" /\ outcome'[t] = call_reject /\ self' = self)]_vars
  /\ [](\A t \in Threads : pc[t] \in {"invoke", "in_func"} => self._state # OPEN)

C1_Witness ==
  /\ self.failure_threshold = 2
  /\ consecutive_failures = 2
  /\ self._state = OPEN
  /\ WithinTimeout
  /\ \E t \in Threads : pc[t] = "done" /\ outcome[t] = call_reject

\* C2 as claimed: with concurrent callers, no invocation of func begins while
\* the breaker is OPEN and less than timeout has elapsed since the last failure.
C2_NoInvocationWhileOpen ==
  [][\A t \in Threads : BeginsFunc(t) => ~(self._state = OPEN /\ WithinTimeout)]_vars

\* C2 amended: a caller invokes func only if its own state read returned CLOSED
\* or HALF_OPEN, and a caller whose state read returns OPEN is rejected without
\* invoking func (a caller admitted before another caller's failure opened the
\* circuit may still begin its invocation while the breaker is OPEN).
C2_InvokesOnlyIfAdmitted ==
  /\ [](\A t \in Threads : pc[t] \in {"invoke", "in_func"} =>
          current_state[t] \in {CLOSED, HALF_OPEN})
  /\ [][\A t \in Threads : (ReadsState(t) /\ self._state = OPEN) =>
          (pc'[t] = "done" /\ outcome'[t] = call_reject)]_vars

C2_Witness ==
  \E t, u \in Threads :
     /\ pc[t] = "in_func" /\ current_state[t] = CLOSED
     /\ self._state = OPEN /\ WithinTimeout
     /\ pc[u] = "done" /\ outcome[u] = call_reject

Resets(t) == pc[t] = "reset_locked" /\ pc'[t] = "done"

\* C4: in HALF_OPEN, _success_count is the number of successes recorded so far
\* in this half-open episode and is below success_threshold; the success that
\* makes it success_threshold closes the circuit with both counters 0, an
\* earlier one leaves the breaker HALF_OPEN, and apart from reset() nothing
\* else takes the breaker from HALF_OPEN to CLOSED.
C4_ClosesAtSuccessThreshold ==
  /\ [](self._state = HALF_OPEN =>
          (self._success_count = trial_successes /\ trial_successes < self.success_threshold))
  /\ [][\A t \in Threads : (RecordsSuccess(t) /\ self._state = HALF_OPEN) =>
          IF trial_successes + 1 = self.success_threshold
          THEN self'._state = CLOSED /\ self'._failure_count = 0 /\ self'._success_count = 0
          ELSE self'._state = HALF_OPEN /\ self'._success_count = trial_successes + 1]_vars
  /\ [][(self._state = HALF_OPEN /\ self'._state = CLOSED) =>
          \E t \in Threads :
             \/ RecordsSuccess(t) /\ trial_successes + 1 = self.success_threshold
             \/ Resets(t)]_vars

C4_Witness ==
  \E t, u \in Threads :
     /\ self.success_threshold = 2
     /\ pc[t] = "done" /\ current_state[t] = HALF_OPEN /\ outcome[t] = call_return
     /\ pc[u] = "on_success_locked" /\ current_state[u] = HALF_OPEN
     /\ self._state = HALF_OPEN /\ self._success_count = 1

\* C5: a failure recorded in HALF_OPEN, whatever _success_count is, opens the
\* circuit, sets _success_count to 0 and _last_failure_time to the time of
\* that failure; the breaker leaves OPEN for HALF_OPEN only when timeout has
\* elapsed since the last failure, and until then a call that reads OPEN is
\* rejected.
C5_HalfOpenFailureReopens ==
  /\ [][\A t \in Threads : (RecordsFailure(t) /\ self._state = HALF_OPEN) =>
          /\ self'._state = OPEN
          /\ self'._success_count = 0
          /\ self'._last_failure_time = now]_vars
  /\ [][(self._state = OPEN /\ self'._state = HALF_OPEN) =>
          now - self._last_failure_time >= self.timeout]_vars
  /\ [][\A t \in Threads : (ReadsState(t) /\ self._state = OPEN /\ WithinTimeout) =>
          (pc'[t] = "done" /\ outcome'[t] = call_reject /\ self' = self)]_vars

C5_Witness ==
  \E t \in Threads :
     /\ self.success_threshold = 2
     /\ trial_successes = 0
     /\ pc[t] = "done" /\ current_state[t] = HALF_OPEN
     /\ outcome[t].kind = "raise" /\ outcome[t].value \in OpErrors
     /\ self._state = OPEN /\ self._success_count = 0
     /\ self._last_failure_time = now /\ now > 0

\* C6: in every reachable state reset() gives CLOSED with both counters 0,
\* and a second reset() changes nothing more.
C6_ResetClosesAndIsIdempotent ==
  /\ [](LET r == release(_reset(acquire(self, 1)), 1)
        IN  /\ r._state = CLOSED /\ r._failure_count = 0 /\ r._success_count = 0
            /\ release(_reset(acquire(r, 1)), 1) = r)
  /\ [][\A t \in Threads : Resets(t) =>
          /\ self'._state = CLOSED
          /\ self'._failure_count = 0
          /\ self'._success_count = 0
          /\ release(_reset(acquire(self', t)), t) = self']_vars

C6_Witness ==
  \E t, u \in Threads :
     /\ op[t] = "reset" /\ pc[t] = "done"
     /\ pc[u] = "in_func" /\ current_state[u] = HALF_OPEN
     /\ self._state = CLOSED /\ self._failure_count = 0 /\ self._success_count = 0
     /\ self._last_failure_time # None

\* C7 as claimed: immediately after every state transition both
\* _failure_count and _success_count are 0.
C7_CountersZeroAfterTransition ==
  [][self'._state # self._state =>
        (self'._failure_count = 0 /\ self'._success_count = 0)]_vars

\* C7 amended: immediately after every state transition _success_count is 0;
\* _failure_count is 0 after a transition to CLOSED, is unchanged by
\* OPEN -> HALF_OPEN, and is the incremented (non-zero) count after
\* CLOSED -> OPEN and HALF_OPEN -> OPEN.
C7_SuccessCountZeroAfterTransition ==
  [][self'._state # self._state =>
        /\ self'._success_count = 0
        /\ (self'._state = CLOSED => self'._failure_count = 0)
        /\ (self'._state = HALF_OPEN => self'._failure_count = self._failure_count)
        /\ (self'._state = OPEN => self'._failure_count = self._failure_count + 1)]_vars

C7_Witness ==
  /\ self._state = HALF_OPEN
  /\ self._failure_count = self.failure_threshold
  /\ self._success_count = 0
  /\ \E t \in Threads : pc[t] = "state_return" /\ cs_state[t] = HALF_OPEN

\* C8: with concurrent callers, no step of a call() taken while the breaker
\* is OPEN changes _failure_count or _last_failure_time, and _failure_count
\* is incremented only in steps taken in CLOSED or HALF_OPEN.
C8_FailureCountFrozenWhileOpen ==
  /\ [][\A t \in Threads : (op[t] = "call" /\ pc'[t] # pc[t] /\ self._state = OPEN) =>
          /\ self'._failure_count = self._failure_count
          /\ self'._last_failure_time = self._last_failure_time]_vars
  /\ [][self'._failure_count > self._failure_count =>
          self._state \in {CLOSED, HALF_OPEN}]_vars

\* C9: a thread that is about to execute or is executing func does not hold
\* the lock; whoever holds it is inside one of the bookkeeping blocks, and a
\* thread waiting for a free lock can take it whatever the others execute.
C9_LockNotHeldAcrossFunc ==
  /\ \A t \in Threads : pc[t] \in {"invoke", "in_func"} => self._lock # t
  /\ self._lock # Unlocked =>
        pc[self._lock] \in {"state_locked", "on_success_locked", "on_failure_locked", "reset_locked"}
  /\ \A t \in Threads :
        (self._lock = Unlocked /\
         pc[t] \in {"state_enter", "on_success_enter", "on_failure_enter", "reset_enter"})
        => ENABLED Acquire(t)

C9_Witness ==
  \E t, u \in Threads :
     /\ t # u
     /\ pc[t] = "in_func" /\ current_state[t] = HALF_OPEN
     /\ pc[u] = "on_failure_locked" /\ current_state[u] = HALF_OPEN
     /\ self._lock = u

\* C10: the step that ends a call() whose func raised e records the failure
\* (_failure_count + 1, _last_failure_time = now, the trip decided) and gives
\* the caller that same e; such a call never returns normally and never ends
\* with CircuitBreakerError, which is raised only when no func was invoked.
C10_FailureRecordedThenRaised ==
  /\ [][\A t \in Threads : RecordsFailure(t) =>
          /\ exc[t] \in OpErrors
          /\ self'._failure_count = self._failure_count + 1
          /\ self'._last_failure_time = now
          /\ self'._state = IF \/ self._state \in {OPEN, HALF_OPEN}
                               \/ self._failure_count + 1 >= self.failure_threshold
                            THEN OPEN ELSE CLOSED
          /\ outcome'[t] = [kind |-> "raise", value |-> exc[t]]]_vars
  /\ [](\A t \in Threads : exc[t] # NoExc =>
          /\ pc[t] \in {"on_failure_enter", "on_failure_locked", "done"}
          /\ pc[t] = "done" => outcome[t] = [kind |-> "raise", value |-> exc[t]])
  /\ [](\A t \in Threads : (op[t] = "call" /\ pc[t] = "done" /\ outcome[t] = call_reject) =>
          (exc[t] = NoExc /\ current_state[t] = OPEN))

C10_Witness ==
  \E t \in Threads :
     /\ pc[t] = "done" /\ exc[t] = "ErrorB"
     /\ outcome[t] = [kind |-> "raise", value |-> "ErrorB"]
     /\ self._state = OPEN /\ self._last_failure_time = now
     /\ self._failure_count = self.failure_threshold



ReadsStats(t) == op[t] = "get_stats" /\ pc'[t] # pc[t]

\* C12: no step of get_stats() changes a field of the breaker, also when the
\* breaker is OPEN and timeout has elapsed (the lazy transition is not made).
C12_GetStatsChangesNothing ==
  /\ [][\A t \in Threads : ReadsStats(t) => self' = self]_vars
  /\ [][\A t \in Threads : (pc[t] = "idle" /\ op'[t] = "get_stats") => self' = self]_vars

C12_Witness ==
  \E t \in Threads :
     /\ op[t] = "get_stats" /\ pc[t] = "done"
     /\ stats[t].state = OPEN /\ self._state = OPEN
     /\ ~WithinTimeout


\* Thread t evaluates the state property's `return self._state`.
ReturnsState(t) == pc[t] = "state_return" /\ pc'[t] # pc[t]

\* C13: the value the state property returns (to call() or to a direct
\* reader) is the value _state had inside the critical section in which the
\* lazy OPEN -> HALF_OPEN check was made, whatever the other threads do.
C13_StateReadIsAtomic ==
  [][\A t \in Threads : ReturnsState(t) =>
        /\ self._state = cs_state[t]
        /\ (op[t] = "call" => current_state'[t] = cs_state[t])
        /\ (op[t] = "state" => outcome'[t].value = cs_state[t])]_vars


(* --------------------------- retry: actions --------------------------- *)
\* The breaker constructed with its defaults and not in use.
BreakerUnused ==
  /\ self = __init__(5, 60, 2)
  /\ now = 0
  /\ pc = [t \in Threads |-> "idle"]
  /\ op = [t \in Threads |-> "none"]
  /\ current_state = [t \in Threads |-> "none"]
  /\ exc = [t \in Threads |-> NoExc]
  /\ outcome = [t \in Threads |-> NoOutcome]
  /\ cs_state = [t \in Threads |-> "none"]
  /\ consecutive_failures = 0
  /\ trial_successes = 0
  /\ stats = [t \in Threads |-> NoStats]
  /\ instants = [t \in Threads |-> {}]

\* A Retry object, or a function decorated with @retry, with any
\* configuration; max_attempts is at least 1.
RetryInit ==
  /\ BreakerUnused
  /\ TimeoutUnused
  /\ HealthInit
  /\ \E ma \in 1..MaxAttempts, d \in 0..MaxDelay, bf \in 1..MaxBackoff,
        ex \in ExceptionTuples :
        \/ policy = Retry__init__(ma, d, bf, ex)
        \/ \E on_retry \in BOOLEAN : policy = retry(ma, d, bf, ex, on_retry)
  /\ RetryIdle

\* execute(func) or the decorated function is called: delay = initial_delay,
\* last_exception = None.
RetryBegin(x) ==
  /\ rpc[x] = "idle"
  /\ rpc' = [rpc EXCEPT ![x] = "loop"]
  /\ attempt' = [attempt EXCEPT ![x] = 0]
  /\ delay' = [delay EXCEPT ![x] = policy.initial_delay]
  /\ last_exception' = [last_exception EXCEPT ![x] = NoExc]
  /\ UNCHANGED <<policy, events, result>>
  /\ UNCHANGED not_retry

\* The head of the for loop: the next attempt starts (Retry.execute stores
\* its number in self.attempts), or the loop is over and the statement after
\* it raises RetryExhaustedError from last_exception.
RetryAttempt(x) ==
  /\ rpc[x] = "loop"
  /\ IF more_attempts(policy, attempt[x])
       THEN /\ policy' = count_attempt(policy, attempt[x])
            /\ rpc' = [rpc EXCEPT ![x] = "call"]
            /\ UNCHANGED result
       ELSE /\ result' = [result EXCEPT ![x] = exhausted(last_exception[x])]
            /\ rpc' = [rpc EXCEPT ![x] = "done"]
            /\ UNCHANGED policy
  /\ UNCHANGED <<attempt, delay, last_exception, events>>
  /\ UNCHANGED not_retry

\* func returns: its result is returned at once.
\* return func(*args, **kwargs): func returned.
FuncReturned(x) ==
  /\ events' = [events EXCEPT ![x] = Append(@, CallEvent(Len(Calls(@)) + 1, "ok"))]
  /\ result' = [result EXCEPT ![x] = returned]
  /\ rpc' = [rpc EXCEPT ![x] = "done"]
  /\ UNCHANGED <<policy, attempt, delay, last_exception>>

RetryFuncReturns(x) ==
  /\ rpc[x] = "call"
  /\ FuncReturned(x)
  /\ UNCHANGED not_retry

\* func raises e.  If `except exceptions` catches it: last_exception = e, and
\* either the observer (when one was given) is called and the sleep begins,
\* or this was the last attempt and RetryExhaustedError is raised from e.
\* If it does not catch it, e leaves the executor.
\* func raised e: the except clause, or e goes on to the caller.
FuncRaised(x, e) ==
  /\ LET called == Append(events[x], CallEvent(Len(Calls(events[x])) + 1, e)) IN
       IF is_retryable(policy, e)
         THEN /\ last_exception' = [last_exception EXCEPT ![x] = e]
              /\ IF will_retry(policy, attempt[x])
                   THEN /\ events' = [events EXCEPT ![x] =
                               IF policy.on_retry
                                 THEN Append(called, ObserverEvent(observer_number(attempt[x]), e))
                                 ELSE called]
                        /\ rpc' = [rpc EXCEPT ![x] = "sleep"]
                        /\ UNCHANGED result
                   ELSE /\ events' = [events EXCEPT ![x] = called]
                        /\ result' = [result EXCEPT ![x] = exhausted(e)]
                        /\ rpc' = [rpc EXCEPT ![x] = "done"]
         ELSE /\ events' = [events EXCEPT ![x] = called]
              /\ result' = [result EXCEPT ![x] = propagated(e)]
              /\ rpc' = [rpc EXCEPT ![x] = "done"]
              /\ UNCHANGED last_exception
  /\ UNCHANGED <<policy, attempt, delay>>

RetryFuncRaises(x) ==
  /\ rpc[x] = "call"
  /\ \E e \in RetryErrors : FuncRaised(x, e)
  /\ UNCHANGED not_retry

\* time.sleep(delay); delay *= backoff_factor; the loop goes on.
RetrySleep(x) ==
  /\ rpc[x] = "sleep"
  /\ events' = [events EXCEPT ![x] = Append(@, SleepEvent(delay[x]))]
  /\ delay' = [delay EXCEPT ![x] = next_delay(policy, delay[x])]
  /\ attempt' = [attempt EXCEPT ![x] = attempt[x] + 1]
  /\ rpc' = [rpc EXCEPT ![x] = "loop"]
  /\ UNCHANGED <<policy, last_exception, result>>
  /\ UNCHANGED not_retry

\* The execution is over; its locals are gone, the policy object stays.
RetryFinish(x) ==
  /\ rpc[x] = "done"
  /\ rpc' = [rpc EXCEPT ![x] = "idle"]
  /\ attempt' = [attempt EXCEPT ![x] = 0]
  /\ delay' = [delay EXCEPT ![x] = 0]
  /\ last_exception' = [last_exception EXCEPT ![x] = NoExc]
  /\ events' = [events EXCEPT ![x] = << >>]
  /\ result' = [result EXCEPT ![x] = NoResult]
  /\ UNCHANGED policy
  /\ UNCHANGED not_retry

RetryStep(x) ==
  \/ RetryBegin(x)
  \/ RetryAttempt(x)
  \/ RetryFuncReturns(x)
  \/ RetryFuncRaises(x)
  \/ RetrySleep(x)
  \/ RetryFinish(x)

\* One execution at a time.
NextRetry == RetryStep(1)

SpecRetry == RetryInit /\ [][NextRetry]_vars

\* Several executions use the same policy and may overlap.
NextRetryShared == \E x \in Executions : RetryStep(x)

SpecRetryShared == RetryInit /\ [][NextRetryShared]_vars


(* ---------------------------- retry: claims --------------------------- *)
\* The exceptions func raised in execution x, one per invocation ("ok" for
\* an invocation that returned).
Raised(x) == [i \in 1..Len(Calls(events[x])) |-> Calls(events[x])[i].what]

\* Every invocation of func in execution x failed with a retryable failure.
AllRetryable(x) == \A i \in 1..Len(Raised(x)) : Raised(x)[i] \in policy.exceptions

\* C14: an execution in which every attempt failed with a retryable failure
\* ends only after exactly max_attempts invocations of func, and it ends with
\* RetryExhaustedError whose cause is the failure of the last attempt.
C14_ExhaustsAfterMaxAttempts ==
  \A x \in Executions : (rpc[x] = "done" /\ AllRetryable(x)) =>
      /\ Len(Raised(x)) = policy.max_attempts
      /\ result[x] = exhausted(Raised(x)[policy.max_attempts])

C14_Witness ==
  /\ rpc[1] = "done"
  /\ policy.max_attempts = 3
  /\ policy.exceptions = Exception
  /\ Raised(1) = <<"ValueError", "ValueError", "ConnectionError">>
  /\ result[1].value = RetryExhaustedError
  /\ result[1].cause = "ConnectionError"

\* C15: an invocation that fails with a failure outside the retryable set is
\* the last thing the execution does: nothing follows it (no invocation, no
\* sleep, no observer call) and the failure itself, unwrapped, is the result.
C15_NonRetryablePropagatesAtOnce ==
  \A x \in Executions : \A i \in 1..Len(events[x]) :
      (events[x][i].ev = "call" /\ events[x][i].what \notin policy.exceptions \cup {"ok"}) =>
          /\ i = Len(events[x])
          /\ rpc[x] = "done"
          /\ result[x] = propagated(events[x][i].what)

C15_Witness ==
  /\ rpc[1] = "done"
  /\ policy.on_retry
  /\ policy.exceptions = {"ConnectionError"}
  /\ Raised(1) = <<"ConnectionError", "ValueError">>
  /\ result[1] = propagated("ValueError")
  /\ Len(Sleeps(events[1])) = 1


RECURSIVE Pow(_, _)
Pow(b, n) == IF n = 0 THEN 1 ELSE b * Pow(b, n - 1)

\* The invocations of func and the sleeps of execution x, in order.
CallsAndSleeps(x) == SelectSeq(events[x], LAMBDA v : v.ev \in {"call", "sleep"})

\* C16: in one execution the k-th sleep lasts
\* initial_delay * backoff_factor^(k-1); invocations and sleeps alternate,
\* starting with an invocation (no sleep before the first attempt, exactly
\* one between consecutive attempts); a finished execution ends with an
\* invocation (no sleep after the final attempt), and nothing follows an
\* invocation that returned.
C16_BackoffSchedule ==
  \A x \in Executions :
      /\ \A k \in 1..Len(Sleeps(events[x])) :
            Sleeps(events[x])[k].n = policy.initial_delay * Pow(policy.backoff_factor, k - 1)
      /\ \A i \in 1..Len(CallsAndSleeps(x)) :
            CallsAndSleeps(x)[i].ev = IF i % 2 = 1 THEN "call" ELSE "sleep"
      /\ Len(Sleeps(events[x])) <= policy.max_attempts - 1
      /\ rpc[x] = "done" => Len(Calls(events[x])) = Len(Sleeps(events[x])) + 1
      /\ rpc[x] = "sleep" => Len(Calls(events[x])) = Len(Sleeps(events[x])) + 1
      /\ rpc[x] \in {"loop", "call"} => Len(Calls(events[x])) = Len(Sleeps(events[x]))
      /\ \A i \in 1..Len(events[x]) :
            (events[x][i].ev = "call" /\ events[x][i].what = "ok") => i = Len(events[x])

C16_Witness ==
  /\ rpc[1] = "done"
  /\ policy.initial_delay = 1 /\ policy.backoff_factor = 2 /\ policy.max_attempts = 3
  /\ Len(Sleeps(events[1])) = 2
  /\ Sleeps(events[1])[1].n = 1 /\ Sleeps(events[1])[2].n = 2
  /\ Len(Calls(events[1])) = 3

\* C17: when the decorator was given an observer, it is called exactly once
\* after each failed attempt that is retried, with the attempt's number
\* (from 1) and the attempt's failure, and before the sleep: every observer
\* call directly follows the failed invocation it reports, every sleep
\* directly follows an observer call, and a finished execution ends with an
\* invocation, so no observer call follows the terminal failure, a
\* non-retryable failure or a success.
C17_ObserverCalledBeforeEachWait ==
  (policy.kind = "retry" /\ policy.on_retry) =>
    \A x \in Executions :
      /\ \A i \in 1..Len(events[x]) :
            /\ events[x][i].ev = "on_retry" =>
                  /\ i > 1
                  /\ events[x][i - 1].ev = "call"
                  /\ events[x][i - 1].what \in policy.exceptions
                  /\ events[x][i].what = events[x][i - 1].what
                  /\ events[x][i].n = events[x][i - 1].n
                  /\ events[x][i].n = Len(Calls(SubSeq(events[x], 1, i)))
                  /\ i = Len(events[x]) => rpc[x] = "sleep"
                  /\ i < Len(events[x]) => events[x][i + 1].ev = "sleep"
            /\ events[x][i].ev = "sleep" => (i > 1 /\ events[x][i - 1].ev = "on_retry")
      /\ Len(Observed(events[x])) <= policy.max_attempts - 1
      /\ rpc[x] = "done" =>
            /\ events[x][Len(events[x])].ev = "call"
            /\ Len(Observed(events[x])) = Len(Calls(events[x])) - 1

C17_Witness ==
  /\ rpc[1] = "done"
  /\ policy.kind = "retry" /\ policy.on_retry /\ policy.max_attempts = 3
  /\ result[1].value = RetryExhaustedError
  /\ Observed(events[1]) = <<ObserverEvent(1, "ConnectionError"), ObserverEvent(2, "ValueError")>>


\* C18: the attempt count belongs to one execution.  While execution x of
\* Retry.execute is inside func, the count the policy shows is x's own
\* attempt number (no other execution overwrote it), and once no execution is
\* running the policy shows no attempt count (the value it was built with).
C18_AttemptCountIsPerExecution ==
  policy.kind = "Retry" =>
    /\ \A x \in Executions : rpc[x] = "call" => policy.attempts = attempt[x] + 1
    /\ (\A x \in Executions : rpc[x] = "idle") => policy.attempts = 0


(* -------------------------- timeout: actions -------------------------- *)
TimeoutInit ==
  /\ BreakerUnused
  /\ RetryUnused
  /\ HealthInit
  /\ \E seconds \in 1..MaxSeconds : timeout_self = Timeout__init__(seconds)
  /\ TimeoutIdle

\* The interpreter runs a Python-level signal handler between two bytecode
\* instructions of the main thread: at once while Python code runs (the
\* wrapper itself, a cooperative func), and only after the call has returned
\* while func is blocked outside the interpreter.
HandlerCanRun ==
  /\ sigalrm.pending
  /\ sigalrm.handler = timeout_handler
  /\ \/ guarded.pc = "in_func" /\ (guarded.kind = "cooperative" \/ guarded.remaining = 0)
     \/ guarded.pc \in {"finally_cancel", "finally_restore"}

\* execute(func): old_handler = signal.signal(SIGALRM, timeout_handler);
\* signal.setitimer(ITIMER_REAL, self.seconds); func is entered.
TimeoutBegin(kind, work) ==
  /\ guarded.pc = "idle"
  /\ sigalrm' = [sigalrm EXCEPT !.handler = timeout_handler,
                                !.itimer = now + timeout_self.seconds]
  /\ guarded' = [pc |-> "in_func", kind |-> kind, remaining |-> work,
                 old_handler |-> sigalrm.handler, exception |-> NoExc,
                 result |-> NoOutcome, started |-> now,
                 completed_at |-> IF work = 0 THEN now ELSE None,
                 raised_at |-> None]
  /\ UNCHANGED <<now, timeout_self>>
  /\ UNCHANGED not_timeout

\* One unit of time passes during the call: func gets on with its work, and
\* the timer, when it expires, makes SIGALRM pending.  A handler that can run
\* runs before any more time passes.
TimeoutTick ==
  /\ guarded.pc \notin {"idle", "done"}
  /\ now < MaxTime
  /\ ~HandlerCanRun
  /\ now' = now + 1
  /\ guarded' = IF guarded.pc = "in_func" /\ guarded.remaining > 0
                  THEN [guarded EXCEPT !.remaining = @ - 1,
                                       !.completed_at = IF guarded.remaining = 1
                                                          THEN now + 1 ELSE None]
                  ELSE guarded
  /\ sigalrm' = IF sigalrm.itimer # None /\ now + 1 >= sigalrm.itimer
                  THEN [sigalrm EXCEPT !.itimer = None, !.pending = TRUE]
                  ELSE sigalrm
  /\ UNCHANGED timeout_self
  /\ UNCHANGED not_timeout

\* timeout_handler runs: raise TimeoutError.  Inside func the exception
\* unwinds into the finally block; inside the finally block it leaves
\* execute at once, whatever was left of the block.
TimeoutHandler ==
  /\ HandlerCanRun
  /\ sigalrm' = [sigalrm EXCEPT !.pending = FALSE]
  /\ guarded' = IF guarded.pc = "in_func"
                  THEN [guarded EXCEPT !.pc = "finally_cancel",
                                       !.exception = TimeoutError,
                                       !.raised_at = now]
                  ELSE [guarded EXCEPT !.pc = "done",
                                       !.exception = TimeoutError,
                                       !.result = timed_out,
                                       !.raised_at = now]
  /\ UNCHANGED <<now, timeout_self>>
  /\ UNCHANGED not_timeout

\* result = func(*args, **kwargs): func has done its work and returns.
TimeoutFuncReturns ==
  /\ guarded.pc = "in_func"
  /\ guarded.remaining = 0
  /\ ~HandlerCanRun
  /\ guarded' = [guarded EXCEPT !.pc = "finally_cancel"]
  /\ UNCHANGED <<now, timeout_self, sigalrm>>
  /\ UNCHANGED not_timeout

\* finally: signal.setitimer(signal.ITIMER_REAL, 0)
TimeoutCancel ==
  /\ guarded.pc = "finally_cancel"
  /\ ~HandlerCanRun
  /\ sigalrm' = [sigalrm EXCEPT !.itimer = None]
  /\ guarded' = [guarded EXCEPT !.pc = "finally_restore"]
  /\ UNCHANGED <<now, timeout_self>>
  /\ UNCHANGED not_timeout

\* finally: signal.signal(signal.SIGALRM, old_handler); then `return result`,
\* or the exception that entered the finally block goes on to the caller.
TimeoutRestore ==
  /\ guarded.pc = "finally_restore"
  /\ ~HandlerCanRun
  /\ sigalrm' = [sigalrm EXCEPT !.handler = guarded.old_handler]
  /\ guarded' = [guarded EXCEPT !.pc = "done",
                                !.result = IF guarded.exception = NoExc
                                             THEN func_result
                                             ELSE timed_out]
  /\ UNCHANGED <<now, timeout_self>>
  /\ UNCHANGED not_timeout

\* The call is over; its locals are gone, the process's signal state stays.
TimeoutFinish ==
  /\ guarded.pc = "done"
  /\ guarded' = NotGuarded
  /\ UNCHANGED <<now, timeout_self, sigalrm>>
  /\ UNCHANGED not_timeout

NextTimeout ==
  \/ \E kind \in FuncKinds, work \in 0..MaxWork : TimeoutBegin(kind, work)
  \/ TimeoutTick
  \/ TimeoutHandler
  \/ TimeoutFuncReturns
  \/ TimeoutCancel
  \/ TimeoutRestore
  \/ TimeoutFinish

SpecTimeout == TimeoutInit /\ [][NextTimeout]_vars

(* --------------------------- timeout: claims -------------------------- *)
\* The instant by which the guarded call must have failed.
Deadline == guarded.started + timeout_self.seconds

\* C19: a func that is still running has not outlived the deadline, and a
\* TimeoutError that was raised was raised no later than the deadline; a func
\* that completed before the deadline has its result returned, and after a
\* return the timer is cancelled, no signal is pending and the handler the
\* process had before is back.
C19_TimeoutGuard ==
  /\ guarded.pc = "in_func" => now <= Deadline
  /\ guarded.raised_at # None => guarded.raised_at <= Deadline
  /\ (guarded.pc = "done" /\ guarded.completed_at # None /\ guarded.completed_at < Deadline) =>
        guarded.result = func_result
  /\ (guarded.pc = "done" /\ guarded.result = func_result) =>
        sigalrm = [handler |-> guarded.old_handler, itimer |-> None, pending |-> FALSE]


(* --------------------------- health: actions -------------------------- *)
\* The position of the check called name in the dict, 0 when it has none.
IndexOf(name) ==
  IF \E i \in 1..Len(checks) : checks[i].name = name
    THEN CHOOSE i \in 1..Len(checks) : checks[i].name = name
    ELSE 0

\* del self.checks[name]
Without(i) == [j \in 1..(Len(checks) - 1) |-> IF j < i THEN checks[j] ELSE checks[j + 1]]

\* HealthCheck.check: the status a probe outcome gives.
status_of(probe) == IF probe = "truthy" THEN HEALTHY ELSE UNHEALTHY

\* HealthCheck.check: the attributes it stores.
checked(c, probe, start_time) ==
  [c EXCEPT !.last_status = status_of(probe),
            !.last_check_time = start_time,
            !.last_error = IF probe = "raises" THEN "error" ELSE "none"]

\* HealthCheck.check: the dict it returns.
check_result(c, probe, start_time, duration) ==
  [name |-> c.name, status |-> status_of(probe), critical |-> c.critical,
   duration |-> duration, timestamp |-> start_time,
   error |-> IF probe = "raises" THEN "error" ELSE "none"]

\* Faulty variant: a probe that raised ends the loop.
loop_over_on_error(rs, cs) ==
  \/ Len(rs) = Len(cs)
  \/ Len(rs) > 0 /\ rs[Len(rs)].error # "none"

\* for check in self.checks.values(): the loop has visited every check.
loop_over(rs, cs) == Len(rs) = Len(cs)

\* Faulty variant: a failing non-critical check always sets DEGRADED.
aggregate_last_wins(overall, status, critical) ==
  IF status = UNHEALTHY
    THEN IF critical THEN UNHEALTHY ELSE DEGRADED
    ELSE overall

\* check_all: what one result does to overall_status.
aggregate(overall, status, critical) ==
  IF status = UNHEALTHY
    THEN IF critical THEN UNHEALTHY
         ELSE IF overall = HEALTHY THEN DEGRADED ELSE overall
    ELSE overall

\* add_check(name, check_fn, critical): self.checks[name] = HealthCheck(...).
\* A new key goes to the end of the dict; an existing key keeps its place.
AddCheck(name, critical) ==
  /\ hpc = "idle"
  /\ checks' = IF IndexOf(name) = 0
                 THEN Append(checks, HealthCheck__init__(name, critical))
                 ELSE [checks EXCEPT ![IndexOf(name)] = HealthCheck__init__(name, critical)]
  /\ UNCHANGED <<hpc, results, overall_status, report, probed>>
  /\ UNCHANGED not_health

\* remove_check(name)
RemoveCheck(name) ==
  /\ hpc = "idle"
  /\ checks' = IF IndexOf(name) = 0 THEN checks ELSE Without(IndexOf(name))
  /\ UNCHANGED <<hpc, results, overall_status, report, probed>>
  /\ UNCHANGED not_health

\* check_all(): results = []; overall_status = HEALTHY
CheckAllBegin ==
  /\ hpc = "idle"
  /\ hpc' = "loop"
  /\ results' = << >>
  /\ overall_status' = HEALTHY
  /\ probed' = << >>
  /\ UNCHANGED <<checks, report>>
  /\ UNCHANGED not_health

\* One iteration of `for check in self.checks.values()`: the probe is
\* called, the check stores its outcome, the result is appended and
\* overall_status is updated.
CheckAllVisit(probe, duration) ==
  /\ hpc = "loop"
  /\ ~loop_over(results, checks)
  /\ LET i == Len(results) + 1 IN
       /\ checks' = [checks EXCEPT ![i] = checked(checks[i], probe, now)]
       /\ results' = Append(results, check_result(checks[i], probe, now, duration))
       /\ probed' = Append(probed, checks[i].name)
       /\ overall_status' = aggregate(overall_status, status_of(probe), checks[i].critical)
  /\ UNCHANGED <<hpc, report>>
  /\ UNCHANGED not_health

\* The loop is over: the report is returned.
CheckAllReturn ==
  /\ hpc = "loop"
  /\ loop_over(results, checks)
  /\ report' = [status |-> overall_status, checks |-> results]
  /\ hpc' = "done"
  /\ UNCHANGED <<checks, results, overall_status, probed>>
  /\ UNCHANGED not_health

\* Faulty variant: an unknown name falls back to the first check.
check_one_target_or_first(name) ==
  IF IndexOf(name) = 0 /\ Len(checks) > 0 THEN 1 ELSE IndexOf(name)

\* check_one: `if name in self.checks`: the check to run, 0 for none.
check_one_target(name) == IndexOf(name)

\* check_one(name): the result of that check's check(), or None when the
\* name is not registered.
CheckOne(name, probe, duration) ==
  /\ hpc = "idle"
  /\ hpc' = "one_done"
  /\ LET i == check_one_target(name) IN
       IF i = 0
         THEN /\ report' = NotFound
              /\ probed' = << >>
              /\ UNCHANGED checks
         ELSE /\ checks' = [checks EXCEPT ![i] = checked(checks[i], probe, now)]
              /\ report' = [status |-> status_of(probe),
                            checks |-> <<check_result(checks[i], probe, now, duration)>>]
              /\ probed' = <<checks[i].name>>
  /\ UNCHANGED <<results, overall_status>>
  /\ UNCHANGED not_health

\* The caller has its report; check_all's locals are gone.
HealthFinish ==
  /\ hpc \in {"done", "one_done"}
  /\ hpc' = "idle"
  /\ results' = << >>
  /\ overall_status' = "none"
  /\ report' = NoReport
  /\ probed' = << >>
  /\ UNCHANGED checks
  /\ UNCHANGED not_health

NextHealth ==
  \/ \E name \in CheckNames, critical \in BOOLEAN : AddCheck(name, critical)
  \/ \E name \in CheckNames : RemoveCheck(name)
  \/ CheckAllBegin
  \/ \E probe \in ProbeOutcomes, duration \in ProbeDurations : CheckAllVisit(probe, duration)
  \/ CheckAllReturn
  \/ \E name \in CheckNames, probe \in ProbeOutcomes, duration \in ProbeDurations :
        CheckOne(name, probe, duration)
  \/ HealthFinish

HealthMonitorInit == BreakerUnused /\ RetryUnused /\ TimeoutUnused /\ HealthInit

SpecHealth == HealthMonitorInit /\ [][NextHealth]_vars

(* --------------------------- health: claims --------------------------- *)
\* Some registered check (a critical one, when critical is TRUE) was found
\* UNHEALTHY by the check_all that is reporting.
SomeUnhealthy(critical) ==
  \E i \in 1..Len(report.checks) :
      /\ report.checks[i].status = UNHEALTHY
      /\ critical => report.checks[i].critical

\* C20: the overall status check_all reports is UNHEALTHY if a critical
\* check is UNHEALTHY, else DEGRADED if any check is UNHEALTHY, else HEALTHY
\* (HEALTHY for no checks); it is a function of the set of registered checks
\* and their outcomes, whatever order they were registered and visited in.
C20_OverallStatus ==
  hpc = "done" =>
    /\ {report.checks[i].name : i \in 1..Len(report.checks)} = {checks[i].name : i \in 1..Len(checks)}
    /\ Len(report.checks) = Len(checks)
    /\ report.status = IF SomeUnhealthy(TRUE) THEN UNHEALTHY
                       ELSE IF SomeUnhealthy(FALSE) THEN DEGRADED
                       ELSE HEALTHY

C20_Witness ==
  /\ hpc = "done"
  /\ Len(checks) = 3
  /\ report.checks[1].critical /\ report.checks[1].status = UNHEALTHY
  /\ ~report.checks[2].critical /\ report.checks[2].status = UNHEALTHY
  /\ report.checks[3].status = HEALTHY
  /\ report.status = UNHEALTHY


\* C21: the status a check gets from one run of its probe is UNHEALTHY when
\* the probe raised, returned a falsy result or ran longer than the check's
\* timeout, and HEALTHY when it returned a truthy result within the timeout;
\* it is never DEGRADED.
C21_CheckStatus ==
  [][\A probe \in ProbeOutcomes, duration \in ProbeDurations :
        CheckAllVisit(probe, duration) =>
          LET i == Len(results') IN
            /\ results'[i].status =
                 IF probe = "truthy" /\ duration <= checks[i].timeout
                   THEN HEALTHY ELSE UNHEALTHY
            /\ checks'[i].last_status = results'[i].status]_vars


\* C22: check_all calls the probe of every registered check exactly once,
\* in registration order, whatever the probes do: while it runs, the probes
\* called and the results appended are those of the first checks of the
\* dict, one each; when it returns, it returns a report (it does not raise)
\* with one result per registered check, in registration order.
C22_EveryProbeRunsOnce ==
  /\ hpc \in {"loop", "done"} =>
        /\ Len(probed) = Len(results)
        /\ Len(results) <= Len(checks)
        /\ \A i \in 1..Len(results) :
              /\ probed[i] = checks[i].name
              /\ results[i].name = checks[i].name
  /\ hpc = "done" =>
        /\ report.status \in HealthStatus
        /\ report.checks = results
        /\ Len(report.checks) = Len(checks)

C22_Witness ==
  /\ hpc = "done"
  /\ Len(checks) = 3
  /\ report.checks[1].error # "none"
  /\ report.checks[2].status = UNHEALTHY /\ report.checks[2].error = "none"
  /\ report.checks[3].status = HEALTHY
  /\ probed = <<checks[1].name, checks[2].name, checks[3].name>>


\* check_one(name) is called and returns.
CheckOneStep(name) ==
  \E probe \in ProbeOutcomes, duration \in ProbeDurations : CheckOne(name, probe, duration)

\* C23: check_one for a name that is not registered returns the not-found
\* signal, calls no probe and leaves every check as it was; for a registered
\* name it calls the probe of that check and of no other, returns that
\* check's result and leaves the other checks as they were.
C23_CheckOne ==
  [][\A name \in CheckNames : CheckOneStep(name) =>
        IF \E i \in 1..Len(checks) : checks[i].name = name
          THEN /\ probed' = <<name>>
               /\ Len(report'.checks) = 1 /\ report'.checks[1].name = name
               /\ Len(checks') = Len(checks)
               /\ \A i \in 1..Len(checks) : checks[i].name # name => checks'[i] = checks[i]
          ELSE /\ report' = NotFound
               /\ probed' = << >>
               /\ checks' = checks]_vars

C23_Witness ==
  /\ hpc = "one_done"
  /\ report = NotFound
  /\ probed = << >>
  /\ Len(checks) = 2
  /\ checks[1].last_status = HEALTHY /\ checks[2].last_status = UNHEALTHY


(* ----------------------- breaker: further claims ---------------------- *)
\* C24: _state changes only in these steps: a failure being recorded takes
\* CLOSED or HALF_OPEN to OPEN; the state property's locked check takes OPEN
\* to HALF_OPEN, and only when at least timeout has elapsed since
\* _last_failure_time; a success being recorded takes HALF_OPEN to CLOSED;
\* reset() takes any state to CLOSED.  Nothing else changes it (not the
\* passing of time, and no step goes CLOSED -> HALF_OPEN or, other than
\* reset(), OPEN -> CLOSED).
C24_OnlyContractTransitions ==
  [][self'._state # self._state =>
       \E t \in Threads :
          \/ RecordsFailure(t) /\ self._state \in {CLOSED, HALF_OPEN} /\ self'._state = OPEN
          \/ /\ ChecksLazily(t)
             /\ self._state = OPEN /\ self'._state = HALF_OPEN
             /\ self._last_failure_time # None
             /\ now - self._last_failure_time >= self.timeout
          \/ RecordsSuccess(t) /\ self._state = HALF_OPEN /\ self'._state = CLOSED
          \/ Resets(t) /\ self'._state = CLOSED]_vars

C24_Witness ==
  /\ self._state = CLOSED
  /\ self._last_failure_time # None
  /\ self._failure_count = 0
  /\ \E t \in Threads :
        /\ pc[t] = "done" /\ op[t] = "call"
        /\ current_state[t] = HALF_OPEN
        /\ outcome[t] = call_return


(* ------------------- retry around a protected call -------------------- *)
\* examples/combined_patterns_example.py: a function decorated with @retry
\* (default exceptions, no observer) whose body is circuit.call(...).  One
\* caller (thread 1, execution 1) calls it again and again.
ComposedInit ==
  /\ \E ft \in 1..MaxThreshold, to \in 1..MaxTimeout, st \in 1..MaxThreshold :
        self = __init__(ft, to, st)
  /\ now = 0
  /\ pc = [t \in Threads |-> "idle"]
  /\ op = [t \in Threads |-> "none"]
  /\ current_state = [t \in Threads |-> "none"]
  /\ exc = [t \in Threads |-> NoExc]
  /\ outcome = [t \in Threads |-> NoOutcome]
  /\ cs_state = [t \in Threads |-> "none"]
  /\ consecutive_failures = 0
  /\ trial_successes = 0
  /\ stats = [t \in Threads |-> NoStats]
  /\ instants = [t \in Threads |-> {}]
  /\ \E ma \in 1..MaxAttempts : policy = retry(ma, 1, 2, Exception, FALSE)
  /\ RetryIdle
  /\ TimeoutUnused
  /\ HealthInit

\* circuit.call returned or raised to the decorated function: its locals are gone.
CallOver(t) ==
  /\ pc' = [pc EXCEPT ![t] = "idle"]
  /\ op' = [op EXCEPT ![t] = "none"]
  /\ current_state' = [current_state EXCEPT ![t] = "none"]
  /\ exc' = [exc EXCEPT ![t] = NoExc]
  /\ outcome' = [outcome EXCEPT ![t] = NoOutcome]
  /\ UNCHANGED <<self, now, cs_state, history, stats, instants>>

\* The wrapper invokes the decorated function, which calls circuit.call.
ComposedCall ==
  /\ rpc[1] = "call"
  /\ pc[1] = "idle"
  /\ rpc' = [rpc EXCEPT ![1] = "in_call"]
  /\ pc' = [pc EXCEPT ![1] = "state_enter"]
  /\ op' = [op EXCEPT ![1] = "call"]
  /\ UNCHANGED <<self, now, locals, history, stats, instants>>
  /\ UNCHANGED <<policy, attempt, delay, last_exception, events, result>>
  /\ UNCHANGED <<timeout_vars, health_vars>>

\* circuit.call returns func's result, which the decorated function returns.
ComposedReturns ==
  /\ rpc[1] = "in_call"
  /\ pc[1] = "done"
  /\ outcome[1].kind = "return"
  /\ FuncReturned(1)
  /\ CallOver(1)
  /\ UNCHANGED <<timeout_vars, health_vars>>

\* circuit.call raises (func's exception or CircuitBreakerError), and so
\* does the decorated function: the wrapper's except clause sees it.
ComposedRaises ==
  /\ rpc[1] = "in_call"
  /\ pc[1] = "done"
  /\ outcome[1].kind = "raise"
  /\ FuncRaised(1, outcome[1].value)
  /\ CallOver(1)
  /\ UNCHANGED <<timeout_vars, health_vars>>

NextComposed ==
  \/ Tick
  \/ RetryBegin(1)
  \/ RetryAttempt(1)
  \/ RetrySleep(1)
  \/ RetryFinish(1)
  \/ ComposedCall
  \/ Acquire(1)
  \/ StateLocked(1)
  \/ CallCheck(1)
  \/ Invoke(1)
  \/ FuncReturns(1)
  \/ FuncRaises(1)
  \/ OnSuccess(1)
  \/ OnFailure(1)
  \/ ComposedReturns
  \/ ComposedRaises

SpecComposed == ComposedInit /\ [][NextComposed]_vars

\* C25: when the breaker rejected an attempt of the composed operation, what
\* the caller of the composed operation receives is CircuitBreakerError itself.
C25_RejectionReachesCaller ==
  (rpc[1] = "done" /\ \E i \in 1..Len(Raised(1)) : Raised(1)[i] = CircuitBreakerError) =>
      result[1] = propagated(CircuitBreakerError)


\* C26: whatever the threads have done, the circuit is CLOSED exactly when
\* _failure_count is below failure_threshold: it is at or above the
\* threshold throughout OPEN and HALF_OPEN and below it whenever CLOSED.
C26_ClosedIffBelowThreshold ==
  (self._state = CLOSED) <=> (self._failure_count < self.failure_threshold)

C26_Witness ==
  /\ self.failure_threshold = 2
  /\ self._state = HALF_OPEN
  /\ self._failure_count >= 2
  /\ \A t \in Threads : pc[t] = "in_func"


(* ------------------------------ liveness ------------------------------ *)
\* Time passes when the clock has reached MaxTime: the clock is kept where
\* it is and the origin of time moves instead, so _last_failure_time is one
\* unit further in the past.  The elapsed time saturates at MaxTime, which
\* no timeout exceeds, so time.time() - _last_failure_time >= timeout is
\* what it would be with an unbounded clock.
TickOn ==
  /\ now = MaxTime
  /\ MaxTimeout <= MaxTime
  /\ self._last_failure_time > 0
  /\ self' = [self EXCEPT !._last_failure_time = @ - 1]
  /\ UNCHANGED <<now, pc, op, locals, history>>
  /\ UNCHANGED rest
  /\ Instants

NextLive == Next \/ TickOn

\* Time keeps advancing, every thread that can take a step eventually takes
\* one, and every thread keeps making calls.
Fairness ==
  /\ WF_vars(Tick \/ TickOn)
  /\ \A t \in Threads : WF_vars(ThreadStep(t)) /\ SF_vars(BeginCall(t))

SpecLive == Init /\ [][NextLive]_vars /\ Fairness

\* An invocation of func fails.
InvocationFails(t) == pc[t] = "in_func" /\ pc'[t] = "on_failure_enter"

\* C27: if from some point on no invocation of func fails (and time keeps
\* advancing, calls keep being made and the threads are scheduled fairly),
\* the circuit is eventually CLOSED for good.
C27_EventuallyClosedForGood ==
  <>[][\A t \in Threads : ~InvocationFails(t)]_vars => <>[](self._state = CLOSED)

C27_Witness ==
  /\ now = MaxTime
  /\ self._last_failure_time = 0
  /\ self._failure_count = MaxFailures
  /\ self._state = HALF_OPEN
  /\ self.success_threshold = 2
  /\ self._success_count = 1
  /\ \A t \in Threads : pc[t] = "idle"


\* C28: the dict get_stats() returns holds values that the four fields had
\* together at one instant during that get_stats() call.
C28_StatsAreASnapshot ==
  \A t \in Threads : (op[t] = "get_stats" /\ pc[t] = "done") =>
      <<stats[t].state, stats[t].failure_count, stats[t].success_count,
        stats[t].last_failure_time>> \in instants[t]


\* ---------------------------------------------------------------------------
\* C29: only trial calls count toward closing the breaker.  Whenever a
\* completing call raises _success_count or takes the breaker from HALF_OPEN
\* to CLOSED, that call was admitted while the breaker was HALF_OPEN (the
\* state its own call() read before invoking func), never while CLOSED.
C29_OnlyTrialsCount ==
  [][\A t \in Threads :
       (/\ RecordsSuccess(t)
        /\ \/ self'._success_count > self._success_count
           \/ self._state = HALF_OPEN /\ self'._state = CLOSED)
       => current_state[t] = HALF_OPEN]_vars

=============================================================================
